---- MODULE Spec2Model ----
(***************************************************************************)
(* A model of lib/poliphaser.js: the cyrb53 string hash, the registry of   *)
(* loaded image ids (PP.assets.list_images_id) with the two load entry     *)
(* points, the scene functions of PP.scenes / PP.game and the sprite       *)
(* animation functions.                                                    *)
(*                                                                         *)
(* JavaScript numbers that matter here are 32-bit words and one 53-bit     *)
(* integer.  A 32-bit word is modelled as the pair <<hi, lo>> of its two   *)
(* 16-bit halves, a 53-bit integer as four base-65536 limbs (least         *)
(* significant first), and a decimal string as the sequence of its digits. *)
(***************************************************************************)
EXTENDS Integers, Sequences, FiniteSets, TLC

(***************************************************************************)
(* 32-bit word arithmetic (the semantics of ^, &, >>> and Math.imul)       *)
(***************************************************************************)

\* One 16-bit half is a number below Half.
Half == 65536

\* Bitwise exclusive or of two naturals.
RECURSIVE XorBits(_, _)
XorBits(a, b) ==
    IF a = 0 THEN b
    ELSE IF b = 0 THEN a
    ELSE (((a % 2) + (b % 2)) % 2) + 2 * XorBits(a \div 2, b \div 2)

\* Bitwise and of two naturals.
RECURSIVE AndBits(_, _)
AndBits(a, b) ==
    IF a = 0 \/ b = 0 THEN 0
    ELSE ((a % 2) * (b % 2)) + 2 * AndBits(a \div 2, b \div 2)

\* x ^ y on 32-bit words.
Xor32(x, y) == <<XorBits(x[1], y[1]), XorBits(x[2], y[2])>>

\* x & y on 32-bit words.
And32(x, y) == <<AndBits(x[1], y[1]), AndBits(x[2], y[2])>>

\* x >>> 16 (zero-fill shift).
Shr16(x) == <<0, x[1]>>

\* x >>> 13 (zero-fill shift).
Shr13(x) == <<x[1] \div 8192, (x[1] % 8192) * 8 + (x[2] \div 8192)>>

\* The low 16 bits of the product of two 16-bit numbers, and what is carried
\* above them; the second factor is split in bytes so that no intermediate
\* value needs more than 31 bits.
MulLo(x, y) == ((x * (y % 256)) + ((x * (y \div 256)) % 256) * 256) % Half
MulHi(x, y) ==
    ((x * (y \div 256)) \div 256)
      + (((x * (y % 256)) + ((x * (y \div 256)) % 256) * 256) \div Half)

\* Math.imul(a, b): the low 32 bits of the product.
imul(a, b) ==
    << (MulHi(a[2], b[2]) + MulLo(a[1], b[2]) + MulLo(a[2], b[1])) % Half,
       MulLo(a[2], b[2]) >>

\* ToInt32 of an integer seed, as the word with the same bits.
ToWord(n) == <<(n \div Half) % Half, n % Half>>

\* A UTF-16 code unit as a word (str.charCodeAt(i) is below 65536).
CharWord(ch) == <<0, ch>>

(***************************************************************************)
(* cyrb53                                                                  *)
(***************************************************************************)

\* The hexadecimal and decimal literals of cyrb53, as words.
K_deadbeef   == <<57005, 48879>>
K_41c6ce57   == <<16838, 52823>>
K_2654435761 == <<40503, 31153>>
K_1597334677 == <<24373, 25749>>
K_2246822507 == <<34283, 51819>>
K_3266489909 == <<49842, 44597>>
K_2097151    == <<31, 65535>>

\* The per-character loop: the lanes <<h1, h2>> after the characters i..Len(str).
RECURSIVE MixChars(_, _, _)
MixChars(h, str, i) ==
    IF i > Len(str) THEN h
    ELSE MixChars(<< imul(Xor32(h[1], CharWord(str[i])), K_2654435761),
                     imul(Xor32(h[2], CharWord(str[i])), K_1597334677) >>,
                  str, i + 1)

\* The two lanes <<h1, h2>> after the final cross-mixing.
Lanes(str, seed) ==
    LET h0 == MixChars(<< Xor32(K_deadbeef, ToWord(seed)),
                          Xor32(K_41c6ce57, ToWord(seed)) >>, str, 1)
        a1 == imul(Xor32(h0[1], Shr16(h0[1])), K_2246822507)
        b1 == Xor32(a1, imul(Xor32(h0[2], Shr13(h0[2])), K_3266489909))
        a2 == imul(Xor32(h0[2], Shr16(h0[2])), K_2246822507)
        b2 == Xor32(a2, imul(Xor32(b1, Shr13(b1)), K_3266489909))
    IN  <<b1, b2>>

\* The same with the mask 4194303, one bit wider.
Combine22(h) ==
    LET m == And32(<<63, 65535>>, h[2])
    IN  << h[1][2], h[1][1], m[2], m[1] >>

\* 4294967296 * (2097151 & h2) + (h1 >>> 0), as limbs (least significant first).
Combine(h) ==
    LET m == And32(K_2097151, h[2])
    IN  << h[1][2], h[1][1], m[2], m[1] >>

\* The quotient of a limb number by ten.
DivTen(n) ==
    LET r4 == n[4] % 10
        r3 == (r4 * Half + n[3]) % 10
        r2 == (r3 * Half + n[2]) % 10
    IN  << (r2 * Half + n[1]) \div 10,
           (r3 * Half + n[2]) \div 10,
           (r4 * Half + n[3]) \div 10,
           n[4] \div 10 >>

\* The remainder of a limb number by ten.
ModTen(n) ==
    ((((((n[4] % 10) * Half + n[3]) % 10) * Half + n[2]) % 10) * Half + n[1]) % 10

\* Number.prototype.toString of a non-negative integer below 10^21: its
\* decimal digits, most significant first, "0" for zero.
RECURSIVE toString(_)
toString(n) ==
    IF DivTen(n) = <<0, 0, 0, 0>> THEN <<ModTen(n)>>
    ELSE Append(toString(DivTen(n)), ModTen(n))

\* cyrb53 with a loop that never runs: the hash of the seed alone.
cyrb53_no_loop(str, seed) == toString(Combine(Lanes(<<>>, seed)))

\* cyrb53(str, seed): a decimal string.
cyrb53(str, seed) == toString(Combine(Lanes(str, seed)))

(***************************************************************************)
(* JavaScript values and the arguments the calls are tried with            *)
(***************************************************************************)

\* A value with its typeof; a string's val is the sequence of its code units.
Str(chars)   == [type |-> "string",    val |-> chars]
Num(n)       == [type |-> "number",    val |-> <<n>>]
Fun          == [type |-> "function",  val |-> <<>>]
Bool(b)      == [type |-> "boolean",   val |-> <<IF b THEN 1 ELSE 0>>]
Undefined    == [type |-> "undefined", val |-> <<>>]
TypeOf(v)    == v.type

\* Truthiness of the values above (undefined, "", 0 and false are falsy).
Truthy(v) ==
    /\ TypeOf(v) # "undefined"
    /\ v # Str(<<>>)
    /\ v # Num(0)
    /\ v # Bool(FALSE)

\* An array, and the undefined in the place of one.
Array(items)   == [defined |-> TRUE,  items |-> items]
UndefinedArray == [defined |-> FALSE, items |-> <<>>]

\* A search that looks at the last element alone.
includes_last(array, x) == Len(array) > 0 /\ array[Len(array)] = x

\* Array.prototype.includes.
includes(array, x) == \E i \in 1..Len(array) : array[i] = x

\* Array.prototype.push, preceded by its variant that inserts at the front.
unshift(array, x) == <<x>> \o array
push(array, x) == Append(array, x)

\* Asset paths: "a.png", "b.png", "hero.png", "c.png".
PathPool ==
    << <<97, 46, 112, 110, 103>>,
       <<98, 46, 112, 110, 103>>,
       <<104, 101, 114, 111, 46, 112, 110, 103>>,
       <<99, 46, 112, 110, 103>> >>
NumPaths == 2
Paths == {PathPool[i] : i \in 1..NumPaths}

\* What is passed as image_path: a path, or something that is not a string.
PathArgs == {Str(p) : p \in Paths} \cup {Undefined}

\* What is passed as scene: a scene of the engine, an object that is no
\* scene (null, {}: typeof gives "object" and there is no loader or factory
\* in it), or no object at all.
PhaserScene == [type |-> "object",    phaser |-> TRUE]
NoScene     == [type |-> "object",    phaser |-> FALSE]
NotObject   == [type |-> "undefined", phaser |-> FALSE]
SceneArgs   == {PhaserScene, NoScene, NotObject}

\* Four numeric arguments: all numbers, or one of them not a number.
GoodNumbers == <<Num(32), Num(32), Num(0), Num(3)>>
NumberArgs ==
    {GoodNumbers} \cup
    {[GoodNumbers EXCEPT ![i] = Undefined] : i \in 1..4}
AllNumbers(t) == \A i \in 1..Len(t) : TypeOf(t[i]) = "number"

\* The ids of the paths: cyrb53(image_path), the seed defaulting to 0.
url_hash_of == [p \in Paths |-> cyrb53(p, 0)]

\* The handles load returns, and the absence of one.
Handle(id, type) == [id |-> id, type |-> type]
NoHandle == [id |-> <<>>, type |-> "none"]

(***************************************************************************)
(* State                                                                   *)
(***************************************************************************)
VARIABLES
    list_images_id,          \* PP.assets.list_images_id
    loader_calls,            \* the calls scene.load.image / .spritesheet received
    list,                    \* PP.scenes.list: Undefined or the scene objects
    list_names,              \* PP.scenes.list_names: Undefined or the names
    game_config,             \* PP.game.config
    ph_obj,                  \* PP.game.ph_obj: whether the engine game exists
    ph_scene_calls,          \* what ph_obj.scene received from the last call that reached it
    current_main_scene_name, \* PP.game.current_main_scene_name
    current_scene_name,      \* PP.game.current_scene_name
    in_overlay_mode,         \* PP.scenes.in_overlay_mode
    sprite_instance,         \* the object PP.assets.sprite.add returned last
    last,                    \* the last call: its arguments and how it ended
    h_str, h_seed, h_out     \* an application of cyrb53: arguments and result

assets_vars == <<list_images_id, loader_calls>>
scenes_vars == <<list, list_names, game_config, ph_obj, ph_scene_calls,
                 current_main_scene_name, current_scene_name, in_overlay_mode>>
hash_vars   == <<h_str, h_seed, h_out>>
vars == <<assets_vars, scenes_vars, sprite_instance, last, hash_vars>>

\* How a call ended: "return", "assert" (PP.debug.assert threw) or "throw"
\* (a TypeError of the runtime).  For the load calls and the calls on scenes
\* arg is the path or scene name passed; for the load calls nums are the
\* frame arguments, handle what was returned and warned whether console.warn
\* was called.
Outcome(op, status, arg, nums, handle, warned) ==
    [op |-> op, status |-> status, arg |-> arg, nums |-> nums,
     handle |-> handle, warned |-> warned]

\* PP.debug.assert(condition, message) throws when condition is falsy.
debug_assert_throws(op, arg, nums) ==
    last' = Outcome(op, "assert", arg, nums, NoHandle, FALSE)

(***************************************************************************)
(* Images and spritesheets                                                 *)
(***************************************************************************)

\* The assertions of PP.assets.image.load: whether all of them pass.
image_load_asserts(scene, image_path) ==
    /\ TypeOf(scene) = "object"
    /\ TypeOf(image_path) = "string"

\* PP.assets.image.load(scene, image_path)
image_load(scene, image_path) ==
    /\ IF ~image_load_asserts(scene, image_path)
       THEN /\ debug_assert_throws("image.load", image_path, <<>>)
            /\ UNCHANGED assets_vars
       ELSE LET url_hash == url_hash_of[image_path.val] IN
            IF includes(list_images_id, url_hash)
            THEN /\ last' = Outcome("image.load", "return", image_path, <<>>,
                                    Handle(url_hash, "image"), TRUE)
                 /\ UNCHANGED assets_vars
            ELSE /\ list_images_id' = push(list_images_id, url_hash)
                 /\ IF scene.phaser
                    THEN /\ loader_calls' = Append(loader_calls,
                                [fn |-> "image", key |-> url_hash,
                                 path |-> image_path.val, config |-> <<>>])
                         /\ last' = Outcome("image.load", "return", image_path,
                                            <<>>, Handle(url_hash, "image"), FALSE)
                    ELSE /\ UNCHANGED loader_calls
                         /\ last' = Outcome("image.load", "throw", image_path,
                                            <<>>, NoHandle, FALSE)
    /\ UNCHANGED <<scenes_vars, sprite_instance, hash_vars>>

\* The assertions of load_spritesheet without the last one.
load_spritesheet_asserts_but_last(scene, image_path, frames) ==
    /\ TypeOf(scene) = "object"
    /\ TypeOf(image_path) = "string"
    /\ TypeOf(frames[1]) = "number"
    /\ TypeOf(frames[2]) = "number"
    /\ TypeOf(frames[3]) = "number"

\* The assertions of PP.assets.sprite.load_spritesheet: whether all pass.
load_spritesheet_asserts(scene, image_path, frames) ==
    /\ TypeOf(scene) = "object"
    /\ TypeOf(image_path) = "string"
    /\ TypeOf(frames[1]) = "number"
    /\ TypeOf(frames[2]) = "number"
    /\ TypeOf(frames[3]) = "number"
    /\ TypeOf(frames[4]) = "number"

\* PP.assets.sprite.load_spritesheet(scene, image_path, frame_width,
\*                                   frame_height, start_frame, end_frame)
load_spritesheet(scene, image_path, frames) ==
    /\ IF ~load_spritesheet_asserts(scene, image_path, frames)
       THEN /\ debug_assert_throws("load_spritesheet", image_path, frames)
            /\ UNCHANGED assets_vars
       ELSE LET url_hash == url_hash_of[image_path.val] IN
            IF includes(list_images_id, url_hash)
            THEN /\ last' = Outcome("load_spritesheet", "return", image_path,
                                    frames, Handle(url_hash, "sprite"), TRUE)
                 /\ UNCHANGED assets_vars
            ELSE /\ list_images_id' = push(list_images_id, url_hash)
                 /\ IF scene.phaser
                    THEN /\ loader_calls' = Append(loader_calls,
                                [fn |-> "spritesheet", key |-> url_hash,
                                 path |-> image_path.val, config |-> frames])
                         /\ last' = Outcome("load_spritesheet", "return",
                                            image_path, frames,
                                            Handle(url_hash, "sprite"), FALSE)
                    ELSE /\ UNCHANGED loader_calls
                         /\ last' = Outcome("load_spritesheet", "throw",
                                            image_path, frames, NoHandle, FALSE)
    /\ UNCHANGED <<scenes_vars, sprite_instance, hash_vars>>

\* PP.assets.image.add(scene, image, x, y, pivot_x, pivot_y)
image_add(scene, image, pos) ==
    /\ IF \/ TypeOf(scene) # "object"
          \/ image = NoHandle
          \/ image.type # "image"
          \/ ~AllNumbers(pos)
          \/ ~(pos[3].val[1] >= 0 /\ pos[3].val[1] <= 1)
          \/ ~(pos[4].val[1] >= 0 /\ pos[4].val[1] <= 1)
       THEN debug_assert_throws("image.add", Undefined, <<>>)
       ELSE IF scene.phaser
            THEN last' = Outcome("image.add", "return", Undefined, <<>>,
                                 NoHandle, FALSE)
            ELSE last' = Outcome("image.add", "throw", Undefined, <<>>,
                                 NoHandle, FALSE)
    /\ UNCHANGED <<assets_vars, scenes_vars, sprite_instance, hash_vars>>

\* A sprite instance {ph_obj, orig_sprite, list_of_animations}, and none.
Instance(sprite, animations) ==
    [exists |-> TRUE, orig_sprite |-> sprite, list_of_animations |-> animations]
NoInstance ==
    [exists |-> FALSE, orig_sprite |-> NoHandle, list_of_animations |-> <<>>]

\* PP.assets.sprite.add(scene, sprite, x, y, pivot_x, pivot_y)
sprite_add(scene, sprite, pos) ==
    /\ IF \/ TypeOf(scene) # "object"
          \/ sprite = NoHandle
          \/ sprite.type # "sprite"
          \/ ~AllNumbers(pos)
       THEN /\ debug_assert_throws("sprite.add", Undefined, <<>>)
            /\ UNCHANGED sprite_instance
       ELSE IF scene.phaser
            THEN /\ sprite_instance' = Instance(sprite, <<>>)
                 /\ last' = Outcome("sprite.add", "return", Undefined, <<>>,
                                    NoHandle, FALSE)
            ELSE /\ UNCHANGED sprite_instance
                 /\ last' = Outcome("sprite.add", "throw", Undefined, <<>>,
                                    NoHandle, FALSE)
    /\ UNCHANGED <<assets_vars, scenes_vars, hash_vars>>

\* PP.assets.sprite.animation_add(sprite_instance, animation_name,
\*     frame_start_nr, frame_end_nr, frame_rate, repeat)
animation_add(instance, animation_name, nums) ==
    /\ IF \/ ~instance.exists
          \/ ~AllNumbers(nums)
          \/ TypeOf(animation_name) # "string"
          \/ includes(instance.list_of_animations, animation_name)
          \/ ~(nums[1].val[1] >= 0)
          \/ ~(nums[2].val[1] >= 0)
          \/ ~(nums[3].val[1] > 0)
          \/ ~(nums[4].val[1] >= -1)
       THEN /\ debug_assert_throws("animation_add", Undefined, <<>>)
            /\ UNCHANGED sprite_instance
       ELSE /\ sprite_instance' =
                 [instance EXCEPT !.list_of_animations = push(@, animation_name)]
            /\ last' = Outcome("animation_add", "return", Undefined, <<>>,
                               NoHandle, FALSE)
    /\ UNCHANGED <<assets_vars, scenes_vars, hash_vars>>

\* PP.assets.sprite.animation_play(sprite_instance, animation_name)
animation_play(instance, animation_name) ==
    /\ IF \/ ~instance.exists
          \/ TypeOf(animation_name) # "string"
          \/ ~includes(instance.list_of_animations, animation_name)
       THEN debug_assert_throws("animation_play", Undefined, <<>>)
       ELSE last' = Outcome("animation_play", "return", Undefined, <<>>,
                            NoHandle, FALSE)
    /\ UNCHANGED <<assets_vars, scenes_vars, sprite_instance, hash_vars>>

\* PP.assets.sprite.animation_stop(sprite_instance)
animation_stop(instance) ==
    /\ IF instance.exists
       THEN last' = Outcome("animation_stop", "return", Undefined, <<>>,
                            NoHandle, FALSE)
       ELSE last' = Outcome("animation_stop", "throw", Undefined, <<>>,
                            NoHandle, FALSE)
    /\ UNCHANGED <<assets_vars, scenes_vars, sprite_instance, hash_vars>>

\* let valid_events = ["pointerdown"]
valid_events == << Str(<<112, 111, 105, 110, 116, 101, 114, 100, 111, 119, 110>>) >>

\* PP.interactive.mouse.add(obj, type_of_event, function_to_call)
mouse_add(obj, type_of_event, function_to_call) ==
    /\ IF \/ ~obj.exists
          \/ TypeOf(type_of_event) # "string"
          \/ TypeOf(function_to_call) # "function"
          \/ ~includes(valid_events, type_of_event)
       THEN debug_assert_throws("mouse.add", Undefined, <<>>)
       ELSE last' = Outcome("mouse.add", "return", Undefined, <<>>,
                            NoHandle, FALSE)
    /\ UNCHANGED <<assets_vars, scenes_vars, sprite_instance, hash_vars>>

(***************************************************************************)
(* Game and scenes                                                         *)
(***************************************************************************)

\* Scene names: "menu", "game", or something that is not a string.
SceneNames == { <<109, 101, 110, 117>>, <<103, 97, 109, 101>> }
SceneNameArgs == {Str(n) : n \in SceneNames} \cup {Undefined}

\* The four callbacks of a scene: functions, or one of them not a function.
CallbackArgs ==
    {<<Fun, Fun, Fun, Fun>>} \cup
    {[<<Fun, Fun, Fun, Fun>> EXCEPT ![i] = Undefined] : i \in 1..4}

\* Game configurations: a good one, a width that is not a number, a width
\* that is not positive, a canvas id that is not a string.
Config(w, h, id) == [canvas_width |-> w, canvas_height |-> h, canvas_id |-> id]
NoConfig == Config(Undefined, Undefined, Undefined)
ConfigArgs ==
    { Config(Num(800), Num(600), Str(<<99>>)),
      Config(Undefined, Num(600), Str(<<99>>)),
      Config(Num(0), Num(600), Str(<<99>>)),
      Config(Num(800), Num(600), Undefined) }

\* A call of the engine's scene manager, ph_obj.scene.fn(key).
SceneCall(fn, key) == [fn |-> fn, key |-> key]

\* PP.game.create(config)
game_create(config) ==
    /\ IF \/ TypeOf(config.canvas_width) # "number"
          \/ TypeOf(config.canvas_height) # "number"
          \/ TypeOf(config.canvas_id) # "string"
          \/ ~(config.canvas_width.val[1] > 0)
          \/ ~list.defined
       THEN /\ debug_assert_throws("game.create", Undefined, <<>>)
            /\ UNCHANGED <<game_config, ph_obj, ph_scene_calls>>
       ELSE /\ game_config' = config
            /\ ph_obj' = TRUE
            /\ ph_scene_calls' = <<>>
            /\ last' = Outcome("game.create", "return", Undefined, <<>>,
                               NoHandle, FALSE)
    /\ UNCHANGED <<list, list_names, current_main_scene_name,
                   current_scene_name, in_overlay_mode>>
    /\ UNCHANGED <<assets_vars, sprite_instance, hash_vars>>

\* PP.game.start(scene_name)
game_start(scene_name) ==
    /\ IF TypeOf(scene_name) # "string"
       THEN /\ debug_assert_throws("game.start", Undefined, <<>>)
            /\ UNCHANGED ph_scene_calls
       ELSE IF ~list_names.defined
       THEN /\ last' = Outcome("game.start", "throw", Undefined, <<>>,
                               NoHandle, FALSE)
            /\ UNCHANGED ph_scene_calls
       ELSE IF ~includes(list_names.items, scene_name.val)
       THEN /\ debug_assert_throws("game.start", Undefined, <<>>)
            /\ UNCHANGED ph_scene_calls
       ELSE IF ~ph_obj
       THEN /\ last' = Outcome("game.start", "throw", Undefined, <<>>,
                               NoHandle, FALSE)
            /\ UNCHANGED ph_scene_calls
       ELSE /\ ph_scene_calls' = <<SceneCall("start", scene_name)>>
            /\ last' = Outcome("game.start", "return", Undefined, <<>>,
                               NoHandle, FALSE)
    /\ UNCHANGED <<list, list_names, game_config, ph_obj,
                   current_main_scene_name, current_scene_name, in_overlay_mode>>
    /\ UNCHANGED <<assets_vars, sprite_instance, hash_vars>>

\* PP.scenes.add(scene_name, preload_function, create_function,
\*               update_function, destroy_function)
scenes_add(scene_name, callbacks) ==
    /\ IF \/ TypeOf(scene_name) # "string"
          \/ \E i \in 1..4 : TypeOf(callbacks[i]) # "function"
       THEN /\ debug_assert_throws("scenes.add", scene_name, <<>>)
            /\ UNCHANGED <<list, list_names>>
       ELSE LET the_list  == IF list.defined THEN list ELSE Array(<<>>)
                the_names == IF list.defined THEN list_names ELSE Array(<<>>)
            IN  IF includes(the_names.items, scene_name.val)
                THEN /\ debug_assert_throws("scenes.add", scene_name, <<>>)
                     /\ list' = the_list
                     /\ list_names' = the_names
                ELSE /\ list_names' = Array(push(the_names.items, scene_name.val))
                     /\ list' = Array(push(the_list.items,
                                           [key |-> scene_name.val]))
                     /\ last' = Outcome("scenes.add", "return", scene_name,
                                        <<>>, NoHandle, FALSE)
    /\ UNCHANGED <<game_config, ph_obj, ph_scene_calls,
                   current_main_scene_name, current_scene_name, in_overlay_mode>>
    /\ UNCHANGED <<assets_vars, sprite_instance, hash_vars>>

\* PP.scenes.start(scene_name)
scenes_start(scene_name) ==
    /\ IF TypeOf(scene_name) # "string"
       THEN /\ debug_assert_throws("scenes.start", scene_name, <<>>)
            /\ UNCHANGED <<current_main_scene_name, ph_scene_calls>>
       ELSE IF ~list_names.defined
       THEN /\ last' = Outcome("scenes.start", "throw", scene_name, <<>>,
                               NoHandle, FALSE)
            /\ UNCHANGED <<current_main_scene_name, ph_scene_calls>>
       ELSE IF ~includes(list_names.items, scene_name.val)
       THEN /\ debug_assert_throws("scenes.start", scene_name, <<>>)
            /\ UNCHANGED <<current_main_scene_name, ph_scene_calls>>
       ELSE /\ current_main_scene_name' = scene_name
            /\ IF ph_obj
               THEN /\ ph_scene_calls' = <<SceneCall("start", scene_name)>>
                    /\ last' = Outcome("scenes.start", "return", scene_name,
                                       <<>>, NoHandle, FALSE)
               ELSE /\ UNCHANGED ph_scene_calls
                    /\ last' = Outcome("scenes.start", "throw", scene_name,
                                       <<>>, NoHandle, FALSE)
    /\ UNCHANGED <<list, list_names, game_config, ph_obj,
                   current_scene_name, in_overlay_mode>>
    /\ UNCHANGED <<assets_vars, sprite_instance, hash_vars>>

\* PP.scenes.stop()
scenes_stop ==
    /\ IF ~Truthy(current_scene_name)
       THEN /\ debug_assert_throws("scenes.stop", Undefined, <<>>)
            /\ UNCHANGED ph_scene_calls
       ELSE IF ~ph_obj
       THEN /\ last' = Outcome("scenes.stop", "throw", Undefined, <<>>,
                               NoHandle, FALSE)
            /\ UNCHANGED ph_scene_calls
       ELSE /\ ph_scene_calls' = <<SceneCall("stop", Undefined)>>
            /\ last' = Outcome("scenes.stop", "return", Undefined, <<>>,
                               NoHandle, FALSE)
    /\ UNCHANGED <<list, list_names, game_config, ph_obj,
                   current_main_scene_name, current_scene_name, in_overlay_mode>>
    /\ UNCHANGED <<assets_vars, sprite_instance, hash_vars>>

\* PP.scenes.start_overlay(scene_name)
start_overlay(scene_name) ==
    /\ IF TypeOf(scene_name) # "string"
       THEN /\ debug_assert_throws("start_overlay", scene_name, <<>>)
            /\ UNCHANGED <<in_overlay_mode, ph_scene_calls>>
       ELSE IF ~list_names.defined
       THEN /\ last' = Outcome("start_overlay", "throw", scene_name, <<>>,
                               NoHandle, FALSE)
            /\ UNCHANGED <<in_overlay_mode, ph_scene_calls>>
       ELSE IF \/ ~includes(list_names.items, scene_name.val)
               \/ ~Truthy(current_scene_name)
               \/ ~Truthy(in_overlay_mode)
       THEN /\ debug_assert_throws("start_overlay", scene_name, <<>>)
            /\ UNCHANGED <<in_overlay_mode, ph_scene_calls>>
       ELSE /\ in_overlay_mode' = Bool(TRUE)
            /\ IF ph_obj
               THEN /\ ph_scene_calls' = <<SceneCall("launch", scene_name)>>
                    /\ last' = Outcome("start_overlay", "return", scene_name,
                                       <<>>, NoHandle, FALSE)
               ELSE /\ UNCHANGED ph_scene_calls
                    /\ last' = Outcome("start_overlay", "throw", scene_name,
                                       <<>>, NoHandle, FALSE)
    /\ UNCHANGED <<list, list_names, game_config, ph_obj,
                   current_main_scene_name, current_scene_name>>
    /\ UNCHANGED <<assets_vars, sprite_instance, hash_vars>>

\* PP.scenes.stop_overlay()
stop_overlay ==
    /\ IF ~Truthy(current_scene_name)
       THEN /\ debug_assert_throws("stop_overlay", Undefined, <<>>)
            /\ UNCHANGED <<in_overlay_mode, ph_scene_calls>>
       ELSE /\ in_overlay_mode' = Bool(FALSE)
            /\ IF ph_obj
               THEN /\ ph_scene_calls' =
                         << SceneCall("resume", current_scene_name),
                            SceneCall("stop", Undefined) >>
                    /\ last' = Outcome("stop_overlay", "return", Undefined,
                                       <<>>, NoHandle, FALSE)
               ELSE /\ UNCHANGED ph_scene_calls
                    /\ last' = Outcome("stop_overlay", "throw", Undefined,
                                       <<>>, NoHandle, FALSE)
    /\ UNCHANGED <<list, list_names, game_config, ph_obj,
                   current_main_scene_name, current_scene_name>>
    /\ UNCHANGED <<assets_vars, sprite_instance, hash_vars>>

(***************************************************************************)
(* An application of cyrb53                                                *)
(***************************************************************************)

\* Code units the strings are made of: "a", ".", NUL and 0xFFFF.
Alphabet == {97, 46, 0, 65535}
MaxLen == 2
Strings == UNION {[1..n -> Alphabet] : n \in 0..MaxLen}
Seeds == {0, 1, -1, 65536, 2147483647}

\* const id = cyrb53(str, seed)
hash_apply ==
    /\ h_out = <<>>
    /\ h_out' = cyrb53(h_str, h_seed)
    /\ UNCHANGED <<h_str, h_seed>>
    /\ UNCHANGED <<assets_vars, scenes_vars, sprite_instance, last>>

(***************************************************************************)
(* Specifications                                                          *)
(***************************************************************************)

\* The state after the script has been loaded.
InitLibrary ==
    /\ list_images_id = <<>>
    /\ loader_calls = <<>>
    /\ list = UndefinedArray
    /\ list_names = UndefinedArray
    /\ game_config = NoConfig
    /\ ph_obj = FALSE
    /\ ph_scene_calls = <<>>
    /\ current_main_scene_name = Undefined
    /\ current_scene_name = Undefined
    /\ in_overlay_mode = Undefined
    /\ sprite_instance = NoInstance
    /\ last = Outcome("none", "return", Undefined, <<>>, NoHandle, FALSE)

Init ==
    /\ InitLibrary
    /\ h_str = <<>>
    /\ h_seed = 0
    /\ h_out = <<>>

\* The two load calls, with every argument of the sets above.
NextLoad ==
    \/ \E scene \in SceneArgs, image_path \in PathArgs :
          image_load(scene, image_path)
    \/ \E scene \in SceneArgs, image_path \in PathArgs, frames \in NumberArgs :
          load_spritesheet(scene, image_path, frames)

\* The calls on the game and the scenes, with every argument of the sets above.
NextScenes ==
    \/ \E config \in ConfigArgs : game_create(config)
    \/ \E scene_name \in SceneNameArgs : game_start(scene_name)
    \/ \E scene_name \in SceneNameArgs, callbacks \in CallbackArgs :
          scenes_add(scene_name, callbacks)
    \/ \E scene_name \in SceneNameArgs : scenes_start(scene_name)
    \/ scenes_stop
    \/ \E scene_name \in SceneNameArgs : start_overlay(scene_name)
    \/ stop_overlay

\* For the specification of the whole library, fewer arguments per call:
\* one scene name, one asset to add, good frame arguments, and for the other
\* calls a good argument list and some lists that fail.
Menu == Str(<<109, 101, 110, 117>>)
FewCallbackArgs == {<<Fun, Fun, Fun, Fun>>, <<Fun, Undefined, Fun, Fun>>}
FewConfigArgs ==
    {Config(Num(800), Num(600), Str(<<99>>)), Config(Num(0), Num(600), Str(<<99>>))}
GoodPosition == <<Num(10), Num(20), Num(0), Num(1)>>
FirstImage  == Handle(url_hash_of[PathPool[1]], "image")
FirstSprite == Handle(url_hash_of[PathPool[1]], "sprite")
AddArgs(good, other) ==
    { <<PhaserScene, good, GoodPosition>>,
      <<NoScene, good, GoodPosition>>,
      <<PhaserScene, other, GoodPosition>>,
      <<PhaserScene, NoHandle, GoodPosition>>,
      <<PhaserScene, good, <<Num(10), Num(20), Num(2), Num(1)>> >> }
Walk == Str(<<119, 97, 108, 107>>)
GoodFrames == <<Num(0), Num(3), Num(10), Num(-1)>>
AnimationAddArgs ==
    { <<sprite_instance, Walk, GoodFrames>>,
      <<NoInstance, Walk, GoodFrames>>,
      <<sprite_instance, Undefined, GoodFrames>>,
      <<sprite_instance, Walk, <<Num(0), Num(3), Num(0), Num(-1)>> >> }
PointerDown == Str(<<112, 111, 105, 110, 116, 101, 114, 100, 111, 119, 110>>)
MouseAddArgs ==
    { <<sprite_instance, PointerDown, Fun>>,
      <<NoInstance, PointerDown, Fun>>,
      <<sprite_instance, Str(<<120>>), Fun>>,
      <<sprite_instance, PointerDown, Undefined>> }

\* Every call of the library.
Next ==
    \/ \E scene \in SceneArgs, image_path \in PathArgs :
          image_load(scene, image_path)
    \/ \E scene \in SceneArgs, image_path \in PathArgs, frames \in {GoodNumbers} :
          load_spritesheet(scene, image_path, frames)
    \/ \E a \in AddArgs(FirstImage, FirstSprite) : image_add(a[1], a[2], a[3])
    \/ \E a \in AddArgs(FirstSprite, FirstImage) : sprite_add(a[1], a[2], a[3])
    \/ \E a \in AnimationAddArgs : animation_add(a[1], a[2], a[3])
    \/ \E animation_name \in {Walk, Undefined} :
          animation_play(sprite_instance, animation_name)
    \/ animation_stop(sprite_instance)
    \/ \E a \in MouseAddArgs : mouse_add(a[1], a[2], a[3])
    \/ \E config \in FewConfigArgs : game_create(config)
    \/ \E scene_name \in {Menu, Undefined} : game_start(scene_name)
    \/ \E scene_name \in {Menu, Undefined}, callbacks \in FewCallbackArgs :
          scenes_add(scene_name, callbacks)
    \/ \E scene_name \in {Menu, Undefined} : scenes_start(scene_name)
    \/ scenes_stop
    \/ \E scene_name \in {Menu, Undefined} : start_overlay(scene_name)
    \/ stop_overlay

\* Every call of the library, in any order.
Spec == Init /\ [][Next]_vars

\* The load calls alone, and the calls on the game and the scenes alone.
SpecLoad == Init /\ [][NextLoad]_vars
SpecScenes == Init /\ [][NextScenes]_vars

\* cyrb53 applied to a string and a seed.
InitHash ==
    /\ InitLibrary
    /\ h_str \in Strings
    /\ h_seed \in Seeds
    /\ h_out = <<>>
SpecHash == InitHash /\ [][hash_apply]_vars

(***************************************************************************)
(* Properties                                                              *)
(***************************************************************************)

LoadOps == {"image.load", "load_spritesheet"}

\* The step is a load call with path p whose assertions passed.
LoadCall(p) ==
    /\ last'.op \in LoadOps
    /\ last'.arg = Str(p)
    /\ last'.status # "assert"

\* The engine loader has been invoked with path p.
Loaded(p) == \E i \in 1..Len(loader_calls) : loader_calls[i].path = p

\* The keys the engine loader has been invoked with.
LoadedKeys == {loader_calls[i].key : i \in 1..Len(loader_calls)}

\* The ids of the registry.
RegistryIds == {list_images_id[i] : i \in 1..Len(list_images_id)}

\* The type tag of the handle a load entry point returns.
TagOf(fn) == IF fn = "image" THEN "image" ELSE "sprite"

\* a is a prefix of b.
IsPrefix(a, b) ==
    /\ Len(a) <= Len(b)
    /\ \A i \in 1..Len(a) : b[i] = a[i]

\* C1: the first load call with a path that was not yet loaded appends the id
\* of the path to the registry and invokes the engine loader with it; a load
\* call with a path already loaded returns the same id with a warning and
\* changes neither the registry nor the calls the engine loader received.
C1_FirstLoadRegistersSecondSkips ==
    [][\A p \in Paths :
         LoadCall(p) =>
           IF ~Loaded(p)
           THEN /\ list_images_id' = Append(list_images_id, url_hash_of[p])
                /\ Len(loader_calls') = Len(loader_calls) + 1
                /\ loader_calls'[Len(loader_calls')].key = url_hash_of[p]
                /\ loader_calls'[Len(loader_calls')].path = p
                /\ last'.status = "return"
                /\ ~last'.warned
           ELSE /\ last'.status = "return"
                /\ last'.warned
                /\ \E i \in 1..Len(loader_calls) :
                      /\ loader_calls[i].path = p
                      /\ loader_calls[i].key = last'.handle.id
                /\ list_images_id' = list_images_id
                /\ loader_calls' = loader_calls]_vars

\* C2: a handle returned for a path already in the registry has the id and
\* the type tag of the handle the registering call returned, whichever of the
\* two entry points registered it.
C2_DuplicateReturnsOriginalHandle ==
    (last.op \in LoadOps /\ last.status = "return") =>
        \A i \in 1..Len(loader_calls) :
            loader_calls[i].path = last.arg.val =>
                /\ last.handle.id = loader_calls[i].key
                /\ last.handle.type = TagOf(loader_calls[i].fn)

\* C3: a load call that fails, by an assertion or by an exception of the
\* delegated loader call, leaves the registry as it was, so that a load of a
\* path the engine loader was never invoked with, when it returns, has
\* invoked the engine loader with that path.
C3_FailedLoadLeavesRegistry ==
    [][/\ (last'.op \in LoadOps /\ last'.status # "return")
          => list_images_id' = list_images_id
       /\ \A p \in Paths :
            (LoadCall(p) /\ last'.status = "return" /\ ~Loaded(p))
              => /\ Len(loader_calls') = Len(loader_calls) + 1
                 /\ loader_calls'[Len(loader_calls')].path = p]_vars

\* C4: a load call with a path that is not a string, or load_spritesheet with
\* a frame argument that is not a number, throws an assertion error, adds
\* nothing to the registry and does not invoke the engine loader.
C4_PreconditionViolationAborts ==
    [][(/\ last'.op \in LoadOps
        /\ \/ TypeOf(last'.arg) # "string"
           \/ ~AllNumbers(last'.nums))
          => /\ last'.status = "assert"
             /\ last'.handle = NoHandle
             /\ list_images_id' = list_images_id
             /\ loader_calls' = loader_calls]_vars

\* A load_spritesheet call with a string path and a frame argument that is
\* not a number has thrown, with an id in the registry.
C4_Witness ==
    /\ last.op = "load_spritesheet"
    /\ TypeOf(last.arg) = "string"
    /\ ~AllNumbers(last.nums)
    /\ last.status = "assert"
    /\ Len(list_images_id) > 0

\* C5: the registry holds no id twice, its ids are the ids the engine loader
\* was invoked with, and the engine loader was invoked at most once per id.
C5_RegistryMatchesLoaderCalls ==
    /\ \A i, j \in 1..Len(list_images_id) :
          list_images_id[i] = list_images_id[j] => i = j
    /\ RegistryIds = LoadedKeys
    /\ \A i, j \in 1..Len(loader_calls) :
          loader_calls[i].key = loader_calls[j].key => i = j

\* C6: the registry is empty initially, and every call of the library, also a
\* failing one, leaves every id of the registry where it was.
C6_RegistryGrowsMonotonically ==
    /\ list_images_id = <<>>
    /\ [][IsPrefix(list_images_id, list_images_id')]_vars

\* A scene has been started with two ids in the registry and an animation
\* added to a sprite.
C6_Witness ==
    /\ Len(list_images_id) >= 2
    /\ last.op = "scenes.start"
    /\ last.status = "return"
    /\ sprite_instance.list_of_animations # <<>>

\* C7: with p1 loaded, no load having failed after registering, and p2 never
\* loaded, a load of p2 that returns gives an id different from the one of p1,
\* both ids are in the registry, and the engine loader has been invoked for
\* both paths, for p2 by this call.
C7_DifferentPathsDifferentIds ==
    [][\A p1, p2 \in Paths :
         (/\ p1 # p2
          /\ Loaded(p1)
          /\ ~Loaded(p2)
          /\ RegistryIds = LoadedKeys
          /\ LoadCall(p2)
          /\ last'.status = "return")
           => /\ ~last'.warned
              /\ \A i \in 1..Len(loader_calls) :
                    loader_calls[i].path = p1 =>
                       /\ loader_calls[i].key # last'.handle.id
                       /\ includes(list_images_id', loader_calls[i].key)
              /\ includes(list_images_id', last'.handle.id)
              /\ Len(list_images_id') = Len(list_images_id) + 1
              /\ loader_calls' = Append(loader_calls,
                    [fn |-> IF last'.op = "image.load" THEN "image"
                            ELSE "spritesheet",
                     key |-> last'.handle.id, path |-> p2,
                     config |-> last'.nums])]_vars

\* Two different paths have been loaded, the second by the last call.
C7_Witness ==
    /\ Len(list_images_id) = 2
    /\ Len(loader_calls) = 2
    /\ loader_calls[1].path # loader_calls[2].path
    /\ last.op \in LoadOps
    /\ last.status = "return"
    /\ ~last.warned
    /\ last.handle.id = list_images_id[2]

\* Decimal strings: digits without a leading zero, and their order.
IsDecimalString(d) ==
    /\ Len(d) >= 1
    /\ \A i \in 1..Len(d) : d[i] \in 0..9
    /\ Len(d) > 1 => d[1] # 0
DecimalLeq(a, b) ==
    \/ Len(a) < Len(b)
    \/ /\ Len(a) = Len(b)
       /\ \/ a = b
          \/ \E i \in 1..Len(a) :
                /\ a[i] < b[i]
                /\ \A j \in 1..(i - 1) : a[j] = b[j]

\* The digits of 9007199254740991.
MaxSafeInteger == <<9, 0, 0, 7, 1, 9, 9, 2, 5, 4, 7, 4, 0, 9, 9, 1>>

\* The number a decimal string denotes, in five base-65536 limbs.
TimesTenPlus(n, digit) ==
    LET l1 == n[1] * 10 + digit
        l2 == n[2] * 10 + (l1 \div Half)
        l3 == n[3] * 10 + (l2 \div Half)
        l4 == n[4] * 10 + (l3 \div Half)
        l5 == n[5] * 10 + (l4 \div Half)
    IN  <<l1 % Half, l2 % Half, l3 % Half, l4 % Half, l5 % Half>>
RECURSIVE ParseDecimal(_, _)
ParseDecimal(d, n) ==
    IF d = <<>> THEN n
    ELSE ParseDecimal(Tail(d), TimesTenPlus(n, Head(d)))

\* C8: the value cyrb53 returns is the decimal string of an integer from 0 to
\* 9007199254740991, namely of 2^32 * (the low 21 bits of h2) + h1, the lanes
\* h1 and h2 being 32-bit words.
C8_HashIsA53BitDecimal ==
    h_out # <<>> =>
        LET h == Lanes(h_str, h_seed) IN
        /\ \A i, j \in 1..2 : h[i][j] \in 0..(Half - 1)
        /\ IsDecimalString(h_out)
        /\ DecimalLeq(h_out, MaxSafeInteger)
        /\ ParseDecimal(h_out, <<0, 0, 0, 0, 0>>)
             = <<h[1][2], h[1][1], h[2][2], h[2][1] % 32, 0>>

\* cyrb53 has been applied to a string of the greatest length with a
\* negative seed.
C8_Witness ==
    /\ h_out # <<>>
    /\ Len(h_str) = MaxLen
    /\ h_seed = -1

\* A main scene has been started: the engine game exists and the last call
\* its scene manager received is the start of current_main_scene_name.
MainStarted ==
    /\ ph_obj
    /\ TypeOf(current_main_scene_name) = "string"
    /\ ph_scene_calls = <<SceneCall("start", current_main_scene_name)>>

\* C9: once a main scene has been started, start_overlay of an added scene
\* returns and sets overlay mode when no overlay is active and fails when one
\* is; stop_overlay ends overlay mode.
C9_OneOverlayAtATime ==
    [][/\ (/\ last'.op = "start_overlay"
           /\ MainStarted
           /\ TypeOf(last'.arg) = "string"
           /\ includes(list_names.items, last'.arg.val))
          => IF in_overlay_mode = Bool(TRUE)
             THEN last'.status = "assert"
             ELSE /\ last'.status = "return"
                  /\ in_overlay_mode' = Bool(TRUE)
       /\ (last'.op = "stop_overlay" /\ MainStarted)
          => in_overlay_mode' = Bool(FALSE)]_vars

\* C10: PP.scenes.stop returns and calls the engine's stop when a main scene
\* has been started, and fails by its assertion only when none has.
C10_StopWhenStarted ==
    [][last'.op = "scenes.stop" =>
         /\ MainStarted =>
               /\ last'.status = "return"
               /\ ph_scene_calls' = <<SceneCall("stop", Undefined)>>
         /\ last'.status = "assert" => ~MainStarted]_vars

\* PP.scenes.list and PP.scenes.list_names go together: both undefined or
\* both arrays of one length, the i-th scene object made with the i-th name,
\* and no name twice.
ScenesConsistent(l, names) ==
    /\ l.defined = names.defined
    /\ Len(l.items) = Len(names.items)
    /\ \A i \in 1..Len(names.items) : l.items[i].key = names.items[i]
    /\ \A i, j \in 1..Len(names.items) :
          names.items[i] = names.items[j] => i = j

\* C11: PP.scenes.add with a name already added throws an assertion error and
\* leaves PP.scenes.list and PP.scenes.list_names as they were; in every state
\* list_names holds no name twice, and list and list_names have one length,
\* the i-th scene object carrying the i-th name.
C11_SceneNamesUnique ==
    /\ ScenesConsistent(list, list_names)
    /\ [][/\ ScenesConsistent(list', list_names')
          /\ (/\ last'.op = "scenes.add"
              /\ TypeOf(last'.arg) = "string"
              /\ includes(list_names.items, last'.arg.val))
             => /\ last'.status = "assert"
                /\ list' = list
                /\ list_names' = list_names]_vars

\* PP.scenes.add has thrown for a name that is one of the two names added.
C11_Witness ==
    /\ last.op = "scenes.add"
    /\ last.status = "assert"
    /\ TypeOf(last.arg) = "string"
    /\ Len(list_names.items) = 2
    /\ Len(list.items) = 2
    /\ includes(list_names.items, last.arg.val)

====
